---- MODULE Spec2Model ----
(***************************************************************************)
(* Model of the machine-scoped realtime client, src/src/api/apiMachine.ts  *)
(* (class ApiMachineClient): the two versioned-state commit loops, the     *)
(* 'rpc-request' dispatcher, the 'update' handler, the keep-alive timer    *)
(* and the connection lifecycle handlers.                                  *)
(*                                                                         *)
(* The coordination server is the environment: a compare-and-swap store    *)
(* per field that answers the 'machine-update-*' events declared in        *)
(* DaemonToServerEvents, and whose messages reach the client in the order  *)
(* it sent them (one websocket).                                           *)
(***************************************************************************)
EXTENDS Integers, Sequences, FiniteSets, TLC

\* ------------------------------------------------------------------ bounds
MaxCalls == 1
MaxRetries == 2
MaxVersion == 2
MaxInFlight == 1
MaxSockets == 2
MaxRequests == 2
MaxHandled == 4
MaxAlive == 1
MaxNow == 20200

\* ------------------------------------------------------- program constants
ShutdownDelay == 100
KeepAliveInterval == 20000

VARIABLES
    machine,            \* this.machine: metadata, metadataVersion, daemonState, daemonStateVersion
    keepAliveInterval,  \* this.keepAliveInterval: 0 is null, else the handle of an interval
    handlers,           \* which of this.spawnSession / stopSession / requestShutdown are bound
    sockets,            \* the transport sessions opened by connect(); this.socket is the last
    intervals,          \* the runtime's active setInterval timers: handle -> next due time
    calls,              \* the running updateMachineMetadata / updateDaemonState calls
    toServer,           \* 'machine-update-*' events emitted and not yet handled by the server
    toClient,           \* acknowledgements and 'update' events sent by the server, in order
    server,             \* the server's copy of each field: value and version
    requests,           \* the inbound rpc-requests: position, responses, handler invocations
    now,                \* the runtime's clock, in milliseconds
    registered,         \* number of 'rpc-register' emissions per method
    aliveSent,          \* number of 'machine-alive' emissions
    retries,            \* number of re-invocations made by the retry policy
    handled,            \* number of runs of the 'connect' and of the 'reconnect' handler
    last                \* the connection or 'update' handler that ran last, its branch and
                        \* the sub-updates the event carried, and what the handler did, in order

vars == <<machine, keepAliveInterval, handlers, sockets, intervals, calls, toServer,
          toClient, server, requests, now, registered, aliveSent, retries, handled, last>>

\* ------------------------------------------------------------------ values
Fields == {"metadata", "daemonState"}

VersionKey(f) == IF f = "metadata" THEN "metadataVersion" ELSE "daemonStateVersion"

EventOf(f) == IF f = "metadata" THEN "machine-update-metadata" ELSE "machine-update-state"

FieldOf(ev) == IF ev = "machine-update-metadata" THEN "metadata" ELSE "daemonState"

MachineId == "M"

MachineIds == {"M", "N"}

\* A MachineMetadata / DaemonState object: who wrote the object, and which of the
\* client's transforms have been applied to it.  Null is the JavaScript null.
Null == [base |-> "null", by |-> {}]

OtherBases == {"X"}

\* handler(value): the transform passed to updateMachineMetadata / updateDaemonState.
\* "running" is the connect handler's ({...state, status: 'running', pid, ...}),
\* "custom" a caller's.
Handlers == {"running", "custom"}

Transform(h, v) == [base |-> v.base, by |-> v.by \cup {h}]

\* JSON.stringify(updated) and JSON.parse(answer.x): a wire value is either the
\* JSON text of an object or the object itself.
JSONstringify(v) == [str |-> TRUE, obj |-> v]

JSONparse(w) == w.obj

\* typeof x === 'string' ? JSON.parse(x) : x
Decode(w) == IF w.str THEN JSONparse(w) ELSE w.obj

NoSub == [present |-> FALSE, value |-> JSONstringify(Null), version |-> 0]

Sub(v, n) == [present |-> TRUE, value |-> v, version |-> n]

\* The Machine snapshot the client is constructed with, which is the server's copy.
InitMachine ==
    [metadata |-> [base |-> "init", by |-> {}], metadataVersion |-> 1,
     daemonState |-> Null, daemonStateVersion |-> 0]

\* ------------------------------------------------------------ call records
\* pc: idle (not started), awaitAck (await emitWithAck), backoff (the attempt threw;
\* the retry policy waits before re-invoking it), done (the call returned).
\* While the call awaits
\* its answer, sent is the attempt's payload and rebased tells that the attempt started
\* from the baseline adopted from a version-mismatch; adopted is the baseline adopted
\* from the last answer, and answer the result of the last answer.
NoCall == [pc |-> "idle", field |-> "metadata", handler |-> "custom",
           sent |-> NoSub, adopted |-> NoSub, rebased |-> FALSE, answer |-> "none"]

\* The calls the daemon makes itself, and the one each run of the 'connect' handler makes.
CallIds == 1 .. MaxCalls + MaxHandled

OwnCalls == {c \in CallIds : calls[c].pc # "idle" /\ calls[c].handler = "custom"}

FreeCalls == {c \in CallIds : calls[c].pc = "idle"}

NewCall == CHOOSE c \in FreeCalls : \A d \in FreeCalls : c <= d

ThisSocket == Len(sockets)

\* A socket is created (by connect(); its 'connect' event has not been handled yet),
\* connected, disconnected, reopened (its 'reconnect' event has been handled, its
\* 'connect' event not yet) or closed.  A socket that is not closed delivers inbound
\* events to the handlers subscribed in connect(); the transport hands over the events
\* it buffered before it emits 'connect'.
Open == \E s \in 1 .. Len(sockets) : sockets[s] # "closed"

\* ------------------------------------------------ versioned state commits
\* AttemptPayload with the handler applied to the value the client was constructed
\* with instead of the current this.machine.x.
AttemptPayloadStale(m, f, h) ==
    Sub(JSONstringify(Transform(h, InitMachine[f])), m[VersionKey(f)])

\* The payload of one commit attempt: handler(this.machine.x), JSON.stringify and
\* expectedVersion: this.machine.xVersion.
AttemptPayload(m, f, h) ==
    Sub(JSONstringify(Transform(h, m[f])), m[VersionKey(f)])

\* AnswerEffect with the version assignment of the version-mismatch branch left out.
AnswerEffectValueOnly(m, f, answer) ==
    IF answer.result = "success"
    THEN [m EXCEPT ![f] = Decode(answer.value), ![VersionKey(f)] = answer.version]
    ELSE IF answer.result = "version-mismatch"
    THEN IF answer.version > m[VersionKey(f)]
         THEN [m EXCEPT ![f] = Decode(answer.value)]
         ELSE m
    ELSE m

\* AnswerEffect with nothing adopted from a version-mismatch answer.
AnswerEffectKeepsBaseline(m, f, answer) ==
    IF answer.result = "success"
    THEN [m EXCEPT ![f] = Decode(answer.value), ![VersionKey(f)] = answer.version]
    ELSE m

\* AnswerEffect with the value of a 'success' answer not taken over.
AnswerEffectStaleValue(m, f, answer) ==
    IF answer.result = "success"
    THEN [m EXCEPT ![VersionKey(f)] = answer.version]
    ELSE IF answer.result = "version-mismatch"
    THEN IF answer.version > m[VersionKey(f)]
         THEN [m EXCEPT ![VersionKey(f)] = answer.version, ![f] = Decode(answer.value)]
         ELSE m
    ELSE m

\* AnswerEffect with the client counting the version on from a version-mismatch.
AnswerEffectCountsOn(m, f, answer) ==
    IF answer.result = "success"
    THEN [m EXCEPT ![f] = Decode(answer.value), ![VersionKey(f)] = answer.version]
    ELSE IF answer.result = "version-mismatch"
    THEN IF answer.version > m[VersionKey(f)]
         THEN [m EXCEPT ![VersionKey(f)] = answer.version + 1, ![f] = Decode(answer.value)]
         ELSE m
    ELSE m

\* The answer handling of one commit attempt: the machine after it.
AnswerEffect(m, f, answer) ==
    IF answer.result = "success"
    THEN [m EXCEPT ![f] = Decode(answer.value), ![VersionKey(f)] = answer.version]
    ELSE IF answer.result = "version-mismatch"
    THEN IF answer.version > m[VersionKey(f)]
         THEN [m EXCEPT ![VersionKey(f)] = answer.version, ![f] = Decode(answer.value)]
         ELSE m
    ELSE m

\* Whether the attempt ends by throwing ('Metadata version mismatch').
AnswerThrows(answer) == answer.result = "version-mismatch"

\* The retry policy (backoff, '@/utils/time'): an attempt that throws is re-invoked
\* after a delay, an attempt that returns ends the call.
BackoffNext(threw) == IF threw THEN "backoff" ELSE "done"

\* One invocation of the async body handed to backoff, up to its await: the record
\* of the call and the outbound queue after it.  Without a socket (connect() not yet
\* called) this.socket.emitWithAck throws a TypeError.
AttemptCall(c, f, h) ==
    LET p == AttemptPayload(machine, f, h)
        adoptedNow == calls[c].adopted.present
                        /\ calls[c].adopted.version = machine[VersionKey(f)]
                        /\ calls[c].adopted.value = JSONstringify(machine[f])
    IN  IF ThisSocket = 0
        THEN [NoCall EXCEPT !.pc = BackoffNext(TRUE), !.field = f, !.handler = h]
        ELSE [NoCall EXCEPT !.pc = "awaitAck", !.field = f, !.handler = h,
                            !.sent = p, !.rebased = adoptedNow]

AttemptEmit(c, f, h) ==
    LET p == AttemptPayload(machine, f, h)
    IN  IF ThisSocket = 0
        THEN toServer
        ELSE Append(toServer, [event |-> EventOf(f), call |-> c, value |-> p.value,
                               expectedVersion |-> p.version])

\* updateMachineMetadata(handler) / updateDaemonState(handler) called by the daemon.
UpdateCall(f, h) ==
    /\ Cardinality(OwnCalls) < MaxCalls
    /\ calls' = [calls EXCEPT ![NewCall] = AttemptCall(NewCall, f, h)]
    /\ toServer' = AttemptEmit(NewCall, f, h)
    /\ UNCHANGED <<machine, keepAliveInterval, handlers, sockets, intervals, toClient,
                   server, requests, now, registered, aliveSent, retries, handled, last>>

updateMachineMetadata == UpdateCall("metadata", "custom")

updateDaemonState == UpdateCall("daemonState", "custom")

\* The retry policy re-invokes the body of call c.
BackoffRetry(c) ==
    /\ calls[c].pc = "backoff"
    /\ retries < MaxRetries
    /\ retries' = retries + 1
    /\ calls' = [calls EXCEPT ![c] = AttemptCall(c, calls[c].field, calls[c].handler)]
    /\ toServer' = AttemptEmit(c, calls[c].field, calls[c].handler)
    /\ UNCHANGED <<machine, keepAliveInterval, handlers, sockets, intervals, toClient,
                   server, requests, now, registered, aliveSent, handled, last>>

\* The retry policy has no ceiling: a re-invocation past the retries that are counted.
BackoffRetryUncounted(c) ==
    /\ calls[c].pc = "backoff"
    /\ retries >= MaxRetries
    /\ calls' = [calls EXCEPT ![c] = AttemptCall(c, calls[c].field, calls[c].handler)]
    /\ toServer' = AttemptEmit(c, calls[c].field, calls[c].handler)
    /\ UNCHANGED <<machine, keepAliveInterval, handlers, sockets, intervals, toClient,
                   server, requests, now, registered, aliveSent, retries, handled, last>>

\* The acknowledgement at the head of the inbound queue resumes its call.
AckHandler(c) ==
    /\ toClient # <<>>
    /\ Head(toClient).kind = "ack"
    /\ Head(toClient).call = c
    /\ Open
    /\ LET answer == Head(toClient)
           f == calls[c].field
           adopts == answer.result = "version-mismatch" /\ answer.version > machine[VersionKey(f)]
       IN  /\ machine' = AnswerEffect(machine, f, answer)
           /\ calls' = [calls EXCEPT
                          ![c] = [NoCall EXCEPT
                                    !.pc = BackoffNext(AnswerThrows(answer)),
                                    !.field = f,
                                    !.handler = calls[c].handler,
                                    !.answer = answer.result,
                                    !.adopted = IF adopts
                                                THEN Sub(JSONstringify(Decode(answer.value)),
                                                         answer.version)
                                                ELSE NoSub]]
    /\ toClient' = Tail(toClient)
    /\ UNCHANGED <<keepAliveInterval, handlers, sockets, intervals, toServer, server,
                   requests, now, registered, aliveSent, retries, handled, last>>

\* ------------------------------------------------------------- the server
\* The server's answer to a commit: compare-and-swap on the field's version.
ServerAnswer(msg, srv) ==
    IF msg.expectedVersion = srv.version
    THEN [kind |-> "ack", call |-> msg.call, result |-> "success",
          version |-> srv.version + 1, value |-> msg.value]
    ELSE [kind |-> "ack", call |-> msg.call, result |-> "version-mismatch",
          version |-> srv.version, value |-> srv.value]

ServerError(msg) ==
    [kind |-> "ack", call |-> msg.call, result |-> "error",
     version |-> 0, value |-> JSONstringify(Null)]

\* The server handles the oldest 'machine-update-*' event and acknowledges it.
ServerCommit ==
    /\ toServer # <<>>
    /\ LET msg == Head(toServer)
           f == FieldOf(msg.event)
           answer == ServerAnswer(msg, server[f])
       IN  /\ toClient' = Append(toClient, answer)
           /\ server' = IF answer.result = "success"
                        THEN [server EXCEPT ![f] = [value |-> answer.value, version |-> answer.version]]
                        ELSE server
    /\ toServer' = Tail(toServer)
    /\ UNCHANGED <<machine, keepAliveInterval, handlers, sockets, intervals, calls,
                   requests, now, registered, aliveSent, retries, handled, last>>

\* The server fails to handle the oldest event and answers {result: 'error'}.
ServerFail ==
    /\ toServer # <<>>
    /\ toClient' = Append(toClient, ServerError(Head(toServer)))
    /\ toServer' = Tail(toServer)
    /\ UNCHANGED <<machine, keepAliveInterval, handlers, sockets, intervals, calls, server,
                   requests, now, registered, aliveSent, retries, handled, last>>

\* Another client (the mobile app) commits a new value of a field.
OtherWriter(f, b) ==
    /\ server[f].version < MaxVersion
    /\ server' = [server EXCEPT ![f] = [value |-> JSONstringify([base |-> b, by |-> {}]),
                                        version |-> server[f].version + 1]]
    /\ UNCHANGED <<machine, keepAliveInterval, handlers, sockets, intervals, calls, toServer,
                   toClient, requests, now, registered, aliveSent, retries, handled, last>>

Pushes == {m \in 1 .. Len(toClient) : toClient[m].kind = "update"}

\* The sub-update the server pushes for its current copy of a field: the decoded
\* object and its version.
ServerSub(f) ==
    Sub([str |-> FALSE, obj |-> JSONparse(server[f].value)], server[f].version)

\* A sub-update of an envelope that is not about this machine.
StraySub == Sub([str |-> FALSE, obj |-> [base |-> "Z", by |-> {}]], MaxVersion + Cardinality(CallIds) + 1)

\* The server pushes an 'update' event for this machine carrying its current copy of
\* the metadata, of the daemon state, of both or of neither.
ServerPush(withMetadata, withState) ==
    /\ Cardinality(Pushes) < MaxInFlight
    /\ toClient' = Append(toClient,
          [kind |-> "update", t |-> "update-machine", machineId |-> MachineId,
           metadata |-> IF withMetadata THEN ServerSub("metadata") ELSE NoSub,
           daemonState |-> IF withState THEN ServerSub("daemonState") ELSE NoSub])
    /\ UNCHANGED <<machine, keepAliveInterval, handlers, sockets, intervals, calls, toServer,
                   server, requests, now, registered, aliveSent, retries, handled, last>>

\* The server pushes an 'update' event of another type, or about another machine.
ServerPushStray(t, id, withMetadata, withState) ==
    /\ Cardinality(Pushes) < MaxInFlight
    /\ t # "update-machine" \/ id # MachineId
    /\ toClient' = Append(toClient,
          [kind |-> "update", t |-> t, machineId |-> id,
           metadata |-> IF withMetadata THEN StraySub ELSE NoSub,
           daemonState |-> IF withState THEN StraySub ELSE NoSub])
    /\ UNCHANGED <<machine, keepAliveInterval, handlers, sockets, intervals, calls, toServer,
                   server, requests, now, registered, aliveSent, retries, handled, last>>

\* ------------------------------------------------------ the 'update' handler
\* UpdateMatches without the comparison of machineId.
UpdateMatchesAnyMachine(body) == body.t = "update-machine"

UpdateMatches(body) == body.t = "update-machine" /\ body.machineId = MachineId

\* ApplyUpdate with each version read from the other field's sub-update.
ApplyUpdateCrossed(m, body) ==
    IF UpdateMatches(body)
    THEN LET m1 == IF body.metadata.present
                   THEN [m EXCEPT !.metadata = Decode(body.metadata.value),
                                  !.metadataVersion = body.daemonState.version]
                   ELSE m
         IN  IF body.daemonState.present
             THEN [m1 EXCEPT !.daemonState = Decode(body.daemonState.value),
                             !.daemonStateVersion = body.metadata.version]
             ELSE m1
    ELSE m

\* ApplyUpdate with the daemon state looked at only when there is no metadata.
ApplyUpdateElseIf(m, body) ==
    IF UpdateMatches(body)
    THEN IF body.metadata.present
         THEN [m EXCEPT !.metadata = Decode(body.metadata.value),
                        !.metadataVersion = body.metadata.version]
         ELSE IF body.daemonState.present
         THEN [m EXCEPT !.daemonState = Decode(body.daemonState.value),
                        !.daemonStateVersion = body.daemonState.version]
         ELSE m
    ELSE m

ApplyUpdate(m, body) ==
    IF UpdateMatches(body)
    THEN LET m1 == IF body.metadata.present
                   THEN [m EXCEPT !.metadata = Decode(body.metadata.value),
                                  !.metadataVersion = body.metadata.version]
                   ELSE m
         IN  IF body.daemonState.present
             THEN [m1 EXCEPT !.daemonState = Decode(body.daemonState.value),
                             !.daemonStateVersion = body.daemonState.version]
             ELSE m1
    ELSE m

\* Which sub-updates an envelope carries.
Carried(body) ==
    IF body.metadata.present
    THEN IF body.daemonState.present THEN "both" ELSE "metadata"
    ELSE IF body.daemonState.present THEN "daemonState" ELSE "none"

UpdateHandler ==
    /\ toClient # <<>>
    /\ Head(toClient).kind = "update"
    /\ Open
    /\ machine' = ApplyUpdate(machine, Head(toClient))
    /\ last' = [ev |-> "update",
                branch |-> IF UpdateMatches(Head(toClient)) THEN "applied" ELSE "ignored",
                carried |-> Carried(Head(toClient)), steps |-> <<>>]
    /\ toClient' = Tail(toClient)
    /\ UNCHANGED <<keepAliveInterval, handlers, sockets, intervals, calls, toServer, server,
                   requests, now, registered, aliveSent, retries, handled>>

\* ------------------------------------------------------------- keep-alive
\* The smallest handle the runtime has not given to an active interval.
NewHandle(iv) == CHOOSE h \in 1 .. Cardinality(DOMAIN iv) + 1 : h \notin DOMAIN iv

\* stopKeepAlive(): this.keepAliveInterval and the runtime's intervals after it.
stopKeepAlive(k, iv) ==
    IF k # 0
    THEN [k |-> 0, iv |-> [h \in DOMAIN iv \ {k} |-> iv[h]]]
    ELSE [k |-> k, iv |-> iv]

\* startKeepAlive without its call of stopKeepAlive.
startKeepAliveNoStop(k, iv, t) ==
    LET new == NewHandle(iv)
    IN  [k |-> new,
         iv |-> [h \in DOMAIN iv \cup {new} |-> IF h = new THEN t + KeepAliveInterval ELSE iv[h]]]

\* startKeepAlive() at time t.
startKeepAlive(k, iv, t) ==
    LET s == stopKeepAlive(k, iv)
        new == NewHandle(s.iv)
    IN  [k |-> new,
         iv |-> [h \in DOMAIN s.iv \cup {new} |->
                    IF h = new THEN t + KeepAliveInterval ELSE s.iv[h]]]

\* The interval's callback: emit 'machine-alive'.
KeepAliveTick(h) ==
    /\ h \in DOMAIN intervals
    /\ now >= intervals[h]
    /\ aliveSent < MaxAlive
    /\ aliveSent' = aliveSent + 1
    /\ intervals' = [intervals EXCEPT ![h] = @ + KeepAliveInterval]
    /\ UNCHANGED <<machine, keepAliveInterval, handlers, sockets, calls, toServer, toClient,
                   server, requests, now, registered, retries, handled, last>>

\* ------------------------------------------------------------ registration
RpcActions == {"spawn-happy-session", "stop-session", "stop-daemon"}

Method(id, action) == [id |-> id, action |-> action]

spawnMethod == Method(MachineId, "spawn-happy-session")

stopMethod == Method(MachineId, "stop-session")

stopDaemonMethod == Method(MachineId, "stop-daemon")

\* Register with repeated announcements of a method suppressed.
RegisterOnce(reg, m) == [reg EXCEPT ![m.action] = 1]

\* socket.emit('rpc-register', {method}) once.
Register(reg, m) == [reg EXCEPT ![m.action] = @ + 1]

\* The three emissions of the 'connect' and of the 'reconnect' handler.
RegisterAll(reg) == Register(Register(Register(reg, spawnMethod), stopMethod), stopDaemonMethod)

\* The three emissions, in the order of the statements.
RegisterSteps ==
    <<[emit |-> "rpc-register", method |-> spawnMethod],
      [emit |-> "rpc-register", method |-> stopMethod],
      [emit |-> "rpc-register", method |-> stopDaemonMethod]>>

\* ConnectSteps with the keep-alive started before the registrations.
ConnectStepsKeepAliveFirst ==
    <<[emit |-> "updateDaemonState", method |-> Method(MachineId, "running")],
      [emit |-> "startKeepAlive", method |-> Method(MachineId, "machine-alive")]>>
        \o RegisterSteps

\* What the 'connect' handler does, in the order of its statements: the call of
\* updateDaemonState, the three registrations, startKeepAlive.
ConnectSteps ==
    <<[emit |-> "updateDaemonState", method |-> Method(MachineId, "running")]>>
        \o RegisterSteps
        \o <<[emit |-> "startKeepAlive", method |-> Method(MachineId, "machine-alive")]>>

\* ---------------------------------------------------------------- lifecycle
\* setRPCHandlers({spawnSession, stopSession, requestShutdown})
setRPCHandlers ==
    /\ handlers' = [spawnSession |-> TRUE, stopSession |-> TRUE, requestShutdown |-> TRUE]
    /\ UNCHANGED <<machine, keepAliveInterval, sockets, intervals, calls, toServer, toClient,
                   server, requests, now, registered, aliveSent, retries, handled, last>>

\* connect(): a new socket, with the handlers below subscribed to it.
connect ==
    /\ Len(sockets) < MaxSockets
    /\ sockets' = Append(sockets, "created")
    /\ last' = [ev |-> "connect()", branch |-> "opened", carried |-> "none", steps |-> <<>>]
    /\ UNCHANGED <<machine, keepAliveInterval, handlers, intervals, calls, toServer, toClient,
                   server, requests, now, registered, aliveSent, retries, handled>>

\* OnConnect with updateDaemonState awaited: the handler run ends at the await, the
\* registrations and the keep-alive wait for the commit.
OnConnectAwaits(s) ==
    /\ s \in 1 .. Len(sockets)
    /\ sockets[s] \in {"created", "reopened"}
    /\ handled.connect + handled.reconnect < MaxHandled
    /\ sockets' = [sockets EXCEPT ![s] = "connected"]
    /\ calls' = [calls EXCEPT ![NewCall] = AttemptCall(NewCall, "daemonState", "running")]
    /\ toServer' = AttemptEmit(NewCall, "daemonState", "running")
    /\ handled' = [handled EXCEPT !.connect = @ + 1]
    /\ last' = [ev |-> "connect", branch |-> "handled", carried |-> "none",
                steps |-> <<ConnectSteps[1]>>]
    /\ UNCHANGED <<machine, keepAliveInterval, intervals, registered, handlers, toClient,
                   server, requests, now, aliveSent, retries>>

\* socket.on('connect'): updateDaemonState(running), three registrations, startKeepAlive.
OnConnect(s) ==
    /\ s \in 1 .. Len(sockets)
    /\ sockets[s] \in {"created", "reopened"}
    /\ handled.connect + handled.reconnect < MaxHandled
    /\ sockets' = [sockets EXCEPT ![s] = "connected"]
    /\ calls' = [calls EXCEPT ![NewCall] = AttemptCall(NewCall, "daemonState", "running")]
    /\ toServer' = AttemptEmit(NewCall, "daemonState", "running")
    /\ registered' = RegisterAll(registered)
    /\ LET ka == startKeepAlive(keepAliveInterval, intervals, now)
       IN  keepAliveInterval' = ka.k /\ intervals' = ka.iv
    /\ handled' = [handled EXCEPT !.connect = @ + 1]
    /\ last' = [ev |-> "connect", branch |-> "handled", carried |-> "none",
                steps |-> ConnectSteps]
    /\ UNCHANGED <<machine, handlers, toClient, server, requests, now, aliveSent, retries>>

\* OnDisconnect with the cached Machine state discarded.
OnDisconnectDiscards(s) ==
    /\ s \in 1 .. Len(sockets)
    /\ sockets[s] = "connected"
    /\ sockets' = [sockets EXCEPT ![s] = "disconnected"]
    /\ LET ka == stopKeepAlive(keepAliveInterval, intervals)
       IN  keepAliveInterval' = ka.k /\ intervals' = ka.iv
    /\ machine' = [metadata |-> Null, metadataVersion |-> 0,
                   daemonState |-> Null, daemonStateVersion |-> 0]
    /\ last' = [ev |-> "disconnect", branch |-> "handled", carried |-> "none", steps |-> <<>>]
    /\ UNCHANGED <<handlers, calls, toServer, toClient, server, requests, now,
                   registered, aliveSent, retries, handled>>

\* socket.on('disconnect'): stopKeepAlive.
OnDisconnect(s) ==
    /\ s \in 1 .. Len(sockets)
    /\ sockets[s] = "connected"
    /\ sockets' = [sockets EXCEPT ![s] = "disconnected"]
    /\ LET ka == stopKeepAlive(keepAliveInterval, intervals)
       IN  keepAliveInterval' = ka.k /\ intervals' = ka.iv
    /\ last' = [ev |-> "disconnect", branch |-> "handled", carried |-> "none", steps |-> <<>>]
    /\ UNCHANGED <<machine, handlers, calls, toServer, toClient, server, requests, now,
                   registered, aliveSent, retries, handled>>

\* socket.io.on('reconnect'): three registrations.  The transport reopened; the
\* socket's own 'connect' event follows.
OnReconnect(s) ==
    /\ s \in 1 .. Len(sockets)
    /\ sockets[s] = "disconnected"
    /\ handled.connect + handled.reconnect < MaxHandled
    /\ sockets' = [sockets EXCEPT ![s] = "reopened"]
    /\ registered' = RegisterAll(registered)
    /\ handled' = [handled EXCEPT !.reconnect = @ + 1]
    /\ last' = [ev |-> "reconnect", branch |-> "handled", carried |-> "none",
                steps |-> RegisterSteps]
    /\ UNCHANGED <<machine, keepAliveInterval, handlers, intervals, calls, toServer, toClient,
                   server, requests, now, aliveSent, retries>>

\* socket.on('connect_error') and socket.io.on('error'): a log line.
OnError(s) ==
    /\ s \in 1 .. Len(sockets)
    /\ sockets[s] \in {"created", "disconnected"}
    /\ last' = [ev |-> "error", branch |-> "logged", carried |-> "none", steps |-> <<>>]
    /\ UNCHANGED <<machine, keepAliveInterval, handlers, sockets, intervals, calls, toServer,
                   toClient, server, requests, now, registered, aliveSent, retries, handled>>

\* shutdown(): stopKeepAlive, and socket.close() when there is a socket; closing a
\* connected socket runs its 'disconnect' handler.
shutdown ==
    /\ LET ka == stopKeepAlive(keepAliveInterval, intervals)
           kb == IF ThisSocket # 0 /\ sockets[ThisSocket] = "connected"
                 THEN stopKeepAlive(ka.k, ka.iv)
                 ELSE ka
       IN  keepAliveInterval' = kb.k /\ intervals' = kb.iv
    /\ sockets' = IF ThisSocket # 0 THEN [sockets EXCEPT ![ThisSocket] = "closed"] ELSE sockets
    /\ last' = [ev |-> "shutdown", branch |-> IF ThisSocket # 0 THEN "closed" ELSE "no-socket", carried |-> "none", steps |-> <<>>]
    /\ UNCHANGED <<machine, handlers, calls, toServer, toClient, server, requests, now,
                   registered, aliveSent, retries, handled>>

\* ----------------------------------------------------- the rpc dispatcher
\* data.method of an inbound request: the three methods of this machine, a method of
\* another machine and a method nobody registered.
InboundMethods ==
    {spawnMethod, stopMethod, stopDaemonMethod,
     Method("N", "stop-daemon"), Method(MachineId, "restart")}

\* data.params: JSON text that does not parse, the JSON texts 'null', '{}' and an
\* object with the field the method needs, that object itself, and undefined.
ParamForms == {"bad-json", "json-null", "json-empty", "json-full", "object-full", "undefined"}

\* JSON.parse(data.params) throws a SyntaxError.
ParseThrows(params) == params = "bad-json"

\* const { directory, sessionId } = paramObj || {}: the field is there.
HasField(params) == params \in {"json-full", "object-full"}

\* What a handler, or a throw statement, can throw: an Error, another value that is
\* not null or undefined, and null or undefined.
Thrown(kind, msg) == [kind |-> kind, msg |-> msg]

NotThrown == Thrown("none", "")

\* The outcomes of stopSession(sessionId) and of await spawnSession(directory, sessionId).
StopResults == {"true", "false", "throw-error", "throw-value", "throw-nullish"}

SpawnResults == {"session", "null", "session-error", "no-session-id",
                 "throw-error", "throw-value", "throw-nullish"}

ThrownBy(result) ==
    IF result = "throw-error" THEN Thrown("Error", "handler error")
    ELSE IF result = "throw-value" THEN Thrown("value", "handler value")
    ELSE IF result = "throw-nullish" THEN Thrown("nullish", "")
    ELSE NotThrown

Response(ok, body) == [ok |-> ok, body |-> body]

\* pc: none (not received), awaitSpawn (await this.spawnSession), timeout (the
\* stop-daemon timer is pending), done (the handler returned), rejected (the handler's
\* promise rejected: an exception escaped it).
NoRequest == [pc |-> "none", method |-> spawnMethod, responses |-> <<>>, unbound |-> FALSE,
              spawnSession |-> 0, stopSession |-> 0, requestShutdown |-> 0,
              ackAt |-> 0, due |-> 0, shutdownAt |-> 0]

RequestIds == 1 .. MaxRequests

\* The outcome of a stretch of the try block: what it threw, the responses it gave to
\* callback, the handler it invoked and where it stopped.
Outcome(pc, thrown, responses, invoked) ==
    [pc |-> pc, thrown |-> thrown, responses |-> responses, invoked |-> invoked]

Throw(msg, invoked) == Outcome("done", Thrown("Error", msg), <<>>, invoked)

\* ShutdownDue with a delay of 0.
ShutdownDueNow(t) == t

\* When the stop-daemon timer set at time t is due.
ShutdownDue(t) == t + ShutdownDelay

\* The try block from its start to its first await or to its end.
TryBlock(method, params, h, stopResult) ==
    IF method = spawnMethod
    THEN IF ~h.spawnSession THEN Throw("Spawn session handler not set", "none")
         ELSE IF ParseThrows(params) THEN Throw("SyntaxError", "none")
         ELSE IF ~HasField(params) THEN Throw("Directory is required", "none")
         ELSE Outcome("awaitSpawn", NotThrown, <<>>, "spawnSession")
    ELSE IF method = stopMethod
    THEN IF ParseThrows(params) THEN Throw("SyntaxError", "none")
         ELSE IF ~h.stopSession THEN Throw("Stop session handler not set", "none")
         ELSE IF ~HasField(params) THEN Throw("Session ID is required", "none")
         ELSE IF stopResult = "true"
              THEN Outcome("done", NotThrown, <<Response(TRUE, "Session stopped")>>, "stopSession")
         ELSE IF stopResult = "false"
              THEN Throw("Session not found or failed to stop", "stopSession")
         ELSE Outcome("done", ThrownBy(stopResult), <<>>, "stopSession")
    ELSE IF method = stopDaemonMethod
    THEN Outcome("timeout", NotThrown,
                 <<Response(TRUE, "Daemon stop request acknowledged")>>, "none")
    ELSE Throw("Unknown RPC method", "none")

\* The try block after await this.spawnSession(...) settled.
AfterSpawn(spawnResult) ==
    IF spawnResult = "null" THEN Throw("Failed to spawn session", "none")
    ELSE IF spawnResult = "session-error" THEN Throw("session.error", "none")
    ELSE IF spawnResult = "no-session-id" THEN Throw("Session spawned but no sessionId", "none")
    ELSE IF spawnResult = "session"
         THEN Outcome("done", NotThrown, <<Response(TRUE, "sessionId")>>, "none")
    ELSE Outcome("done", ThrownBy(spawnResult), <<>>, "none")

\* The catch block: error.message of null or undefined is a TypeError, thrown out of
\* the handler; any other value is answered with {error: error.message || String(error)}.
CatchBlock(o) ==
    IF o.thrown.kind = "none" THEN o
    ELSE IF o.thrown.kind = "nullish"
    THEN Outcome("rejected", o.thrown, o.responses, o.invoked)
    ELSE Outcome("done", o.thrown, Append(o.responses, Response(FALSE, o.thrown.msg)), o.invoked)

\* The request record after a stretch of the handler with outcome o, at time t.
Resume(q, o, t) ==
    [q EXCEPT !.pc = o.pc,
              !.responses = @ \o o.responses,
              !.spawnSession = @ + (IF o.invoked = "spawnSession" THEN 1 ELSE 0),
              !.stopSession = @ + (IF o.invoked = "stopSession" THEN 1 ELSE 0),
              !.ackAt = IF o.pc = "timeout" THEN t ELSE @,
              !.due = IF o.pc = "timeout" THEN ShutdownDue(t) ELSE @]

NewRequest == CHOOSE r \in RequestIds :
                  requests[r].pc = "none" /\ \A q \in RequestIds : requests[q].pc = "none" => r <= q

\* OnRpcRequest made to wait while an earlier request awaits its spawn handler.
OnRpcRequestSerial(method, params, stopResult) ==
    /\ Open
    /\ \A r \in RequestIds : requests[r].pc # "awaitSpawn"
    /\ \E r \in RequestIds : requests[r].pc = "none"
    /\ LET q == [NoRequest EXCEPT
                   !.method = method,
                   !.unbound = \/ method = spawnMethod /\ ~handlers.spawnSession
                               \/ method = stopMethod /\ ~handlers.stopSession]
           o == CatchBlock(TryBlock(method, params, handlers, stopResult))
       IN  /\ requests' = [requests EXCEPT ![NewRequest] = Resume(q, o, now)]
    /\ UNCHANGED <<machine, keepAliveInterval, handlers, sockets, intervals, calls, toServer,
                   toClient, server, now, registered, aliveSent, retries, handled, last>>

\* socket.on('rpc-request'), to its first await.
OnRpcRequest(method, params, stopResult) ==
    /\ Open
    /\ \E r \in RequestIds : requests[r].pc = "none"
    /\ LET q == [NoRequest EXCEPT
                   !.method = method,
                   !.unbound = \/ method = spawnMethod /\ ~handlers.spawnSession
                               \/ method = stopMethod /\ ~handlers.stopSession]
           o == CatchBlock(TryBlock(method, params, handlers, stopResult))
       IN  /\ requests' = [requests EXCEPT ![NewRequest] = Resume(q, o, now)]
    /\ UNCHANGED <<machine, keepAliveInterval, handlers, sockets, intervals, calls, toServer,
                   toClient, server, now, registered, aliveSent, retries, handled, last>>

\* The promise of spawnSession settles and the handler of request r goes on.
SpawnSettles(r, spawnResult) ==
    /\ requests[r].pc = "awaitSpawn"
    /\ LET o == CatchBlock(AfterSpawn(spawnResult))
       IN  /\ requests' = [requests EXCEPT ![r] = Resume(requests[r], o, now)]
    /\ UNCHANGED <<machine, keepAliveInterval, handlers, sockets, intervals, calls, toServer,
                   toClient, server, now, registered, aliveSent, retries, handled, last>>

\* The stop-daemon timer of request r fires: requestShutdown(), when it is bound.
ShutdownTimeout(r) ==
    /\ requests[r].pc = "timeout"
    /\ now >= requests[r].due
    /\ requests' = [requests EXCEPT
                      ![r].pc = "done",
                      ![r].requestShutdown = @ + (IF handlers.requestShutdown THEN 1 ELSE 0),
                      ![r].shutdownAt = now]
    /\ UNCHANGED <<machine, keepAliveInterval, handlers, sockets, intervals, calls, toServer,
                   toClient, server, now, registered, aliveSent, retries, handled, last>>

\* ------------------------------------------------------------------- time
Deadlines ==
    {intervals[h] : h \in DOMAIN intervals}
        \cup {requests[r].due : r \in {q \in RequestIds : requests[q].pc = "timeout"}}

\* Time passes, up to the next moment a timer is due.
Advance ==
    /\ \E d \in Deadlines : d > now /\ d <= MaxNow
    /\ now' = CHOOSE d \in Deadlines : d > now /\ \A e \in Deadlines : e > now => d <= e
    /\ UNCHANGED <<machine, keepAliveInterval, handlers, sockets, intervals, calls, toServer,
                   toClient, server, requests, registered, aliveSent, retries, handled, last>>

\* ------------------------------------------------------ the specifications
Init ==
    /\ machine = InitMachine
    /\ keepAliveInterval = 0
    /\ handlers = [spawnSession |-> FALSE, stopSession |-> FALSE, requestShutdown |-> FALSE]
    /\ sockets = <<>>
    /\ intervals = [h \in {} |-> 0]
    /\ calls = [c \in CallIds |-> NoCall]
    /\ toServer = <<>>
    /\ toClient = <<>>
    /\ server = [f \in Fields |->
                    [value |-> JSONstringify(InitMachine[f]), version |-> InitMachine[VersionKey(f)]]]
    /\ requests = [r \in RequestIds |-> NoRequest]
    /\ now = 0
    /\ registered = [a \in RpcActions |-> 0]
    /\ aliveSent = 0
    /\ retries = 0
    /\ handled = [connect |-> 0, reconnect |-> 0]
    /\ last = [ev |-> "constructor", branch |-> "new", carried |-> "none", steps |-> <<>>]

Lifecycle ==
    \/ connect
    \/ shutdown
    \/ \E s \in 1 .. MaxSockets : OnConnect(s)
    \/ \E s \in 1 .. MaxSockets : OnDisconnect(s)
    \/ \E s \in 1 .. MaxSockets : OnReconnect(s)
    \/ \E s \in 1 .. MaxSockets : OnError(s)

Timers ==
    \/ \E h \in 1 .. MaxSockets + 1 : KeepAliveTick(h)
    \/ Advance

Sync ==
    \/ updateMachineMetadata
    \/ updateDaemonState
    \/ \E c \in CallIds : BackoffRetry(c)
    \/ \E c \in CallIds : AckHandler(c)
    \/ ServerCommit
    \/ ServerFail
    \/ \E f \in Fields, b \in OtherBases : OtherWriter(f, b)

Updates ==
    \/ \E m, d \in BOOLEAN : ServerPush(m, d)
    \/ \E t \in {"update-machine", "new-message"}, id \in MachineIds, m, d \in BOOLEAN :
          ServerPushStray(t, id, m, d)
    \/ UpdateHandler

Rpc ==
    \/ setRPCHandlers
    \/ \E m \in InboundMethods, p \in ParamForms :
          \E x \in IF m = stopMethod /\ HasField(p) THEN StopResults ELSE {"true"} :
              OnRpcRequest(m, p, x)
    \/ \E r \in RequestIds, x \in SpawnResults : SpawnSettles(r, x)
    \/ \E r \in RequestIds : ShutdownTimeout(r)

Next == Lifecycle \/ Timers \/ Sync \/ Updates \/ Rpc

Spec == Init /\ [][Next]_vars

\* The commit loops against the server, with pushes from other writers.
\* The runs in which the daemon's calls and the other writers work on one field f, the
\* other field staying as constructed (the two fields' code paths share no state).
Focused(f) ==
    /\ \A c \in CallIds : calls[c].pc # "idle" => calls[c].field = f
    /\ \A g \in Fields \ {f} : server[g].version = InitMachine[VersionKey(g)]

FocusedCall(f) == Focused(f) /\ UpdateCall(f, "custom")

FocusedWriter(f, b) == Focused(f) /\ OtherWriter(f, b)

FocusedPush(f) == Focused(f) /\ ServerPush(f = "metadata", f = "daemonState")

NextSync ==
    \/ connect
    \/ \E f \in Fields : FocusedCall(f)
    \/ \E f \in Fields, b \in OtherBases : FocusedWriter(f, b)
    \/ \E f \in Fields : FocusedPush(f)
    \/ \E c \in CallIds : BackoffRetry(c)
    \/ \E c \in CallIds : AckHandler(c)
    \/ ServerCommit
    \/ ServerFail
    \/ UpdateHandler

SpecSync == Init /\ [][NextSync]_vars

\* The rpc dispatcher, the handlers it calls and the stop-daemon timer.
NextRpc ==
    \/ connect
    \/ Rpc
    \/ Advance

SpecRpc == Init /\ [][NextRpc]_vars

\* The connection lifecycle, the keep-alive timer and registration.
NextLife == Lifecycle \/ Timers

SpecLife == Init /\ [][NextLife]_vars

\* One connect() call: a single socket for the life of the client.
ConnectOnce == sockets = <<>> /\ connect

\* Update ingest: pushes about this machine and about others, between commits.
NextUpdate ==
    \/ ConnectOnce
    \/ shutdown
    \/ Updates
    \/ \E f \in Fields, b \in OtherBases : OtherWriter(f, b)

SpecUpdate == Init /\ [][NextUpdate]_vars

\* The daemon at work: the connection lifecycle of one connect() call, the keep-alive
\* timer and the rpc dispatcher side by side, with requests whose params are
\* well-formed (they fail when the handler is unbound, the method unknown or the spawn
\* handler returns null).
NextDaemon ==
    \/ ConnectOnce
    \/ shutdown
    \/ \E s \in 1 .. MaxSockets : OnConnect(s)
    \/ \E s \in 1 .. MaxSockets : OnDisconnect(s)
    \/ \E s \in 1 .. MaxSockets : OnReconnect(s)
    \/ \E s \in 1 .. MaxSockets : OnError(s)
    \/ Timers
    \/ setRPCHandlers
    \/ \E m \in InboundMethods : OnRpcRequest(m, "json-full", "true")
    \/ \E r \in RequestIds, x \in {"session", "null"} : SpawnSettles(r, x)
    \/ \E r \in RequestIds : ShutdownTimeout(r)

SpecDaemon == Init /\ [][NextDaemon]_vars

\* Recovery from version conflicts: the commit loops against a server that answers
\* every attempt with the outcome of its compare-and-swap, other writers (who stop
\* after MaxVersion) and a retry policy that keeps re-invoking a failed attempt.
NextRecover ==
    \/ connect
    \/ \E f \in Fields : FocusedCall(f)
    \/ \E f \in Fields, b \in OtherBases : FocusedWriter(f, b)
    \/ \E c \in CallIds : BackoffRetry(c)
    \/ \E c \in CallIds : BackoffRetryUncounted(c)
    \/ \E c \in CallIds : AckHandler(c)
    \/ ServerCommit

SpecRecover ==
    /\ Init /\ [][NextRecover]_vars
    /\ WF_vars(ServerCommit)
    /\ \A c \in CallIds : WF_vars(AckHandler(c))
    /\ \A c \in CallIds : WF_vars(BackoffRetry(c) \/ BackoffRetryUncounted(c))

\* Concurrent calls on the daemon state: the call the 'connect' handler starts and the
\* daemon's own calls, made once connect() was called, against the compare-and-swap
\* server, with no other writer.
ConnectedCall == ThisSocket # 0 /\ FocusedCall("daemonState")

NextRace ==
    \/ connect
    \/ \E s \in 1 .. MaxSockets : OnConnect(s)
    \/ ConnectedCall
    \/ \E c \in CallIds : BackoffRetry(c)
    \/ \E c \in CallIds : BackoffRetryUncounted(c)
    \/ \E c \in CallIds : AckHandler(c)
    \/ ServerCommit

SpecRace ==
    /\ Init /\ [][NextRace]_vars
    /\ WF_vars(ServerCommit)
    /\ \A c \in CallIds : WF_vars(AckHandler(c))
    /\ \A c \in CallIds : WF_vars(BackoffRetry(c) \/ BackoffRetryUncounted(c))

\* ------------------------------------------------------------------ claims
Answered(r) == requests[r].pc \in {"timeout", "done", "rejected"}

\* C1: every inbound rpc-request, whatever its branch and outcome, has its callback
\* invoked exactly once: never twice, and never zero times once its handler has run
\* to completion.
C1_ExactlyOneResponse ==
    \A r \in RequestIds :
        /\ Len(requests[r].responses) <= 1
        /\ Answered(r) => Len(requests[r].responses) = 1

\* C1, the half the code keeps: no request is ever answered twice.
C1_AtMostOneResponse == \A r \in RequestIds : Len(requests[r].responses) <= 1

\* C9: a spawn-session or stop-session request that arrives while its handler is not
\* bound is answered with the error saying that the handler is not set, no handler is
\* invoked for it, and its handler run ends (the client goes on with later events).
C9_UnboundHandlerAnswered ==
    \A r \in RequestIds :
        requests[r].pc # "none" /\ requests[r].unbound =>
            /\ requests[r].pc = "done"
            /\ requests[r].spawnSession = 0 /\ requests[r].stopSession = 0
            /\ requests[r].responses =
                 <<Response(FALSE, IF requests[r].method = spawnMethod
                                   THEN "Spawn session handler not set"
                                   ELSE "Stop session handler not set")>>

\* C10: for every stop-daemon request the acknowledgement is sent before the shutdown
\* handler is invoked, and the shutdown handler is invoked, once, only when the fixed
\* delay after the acknowledgement has elapsed.
C10_AckBeforeShutdown ==
    \A r \in RequestIds :
        /\ requests[r].requestShutdown <= 1
        /\ requests[r].requestShutdown = 1 =>
              /\ requests[r].method = stopDaemonMethod
              /\ requests[r].responses = <<Response(TRUE, "Daemon stop request acknowledged")>>
              /\ requests[r].shutdownAt >= requests[r].ackAt + ShutdownDelay
        /\ requests[r].pc = "timeout" =>
              /\ requests[r].requestShutdown = 0
              /\ Len(requests[r].responses) = 1

\* A stop-daemon request was acknowledged and, later, its shutdown handler was invoked.
C10_Witness ==
    \E r \in RequestIds :
        /\ requests[r].method = stopDaemonMethod
        /\ requests[r].requestShutdown = 1
        /\ now > requests[r].ackAt

\* The pair of value and version the client holds for field f, as a sub-update.
Local(f) == Sub(JSONstringify(machine[f]), machine[VersionKey(f)])

\* C2: no commit answer lowers the local version of either field, and a
\* version-mismatch answer with a higher version leaves the local version equal to
\* the version it reports, the server's copy being as it was (the commit was rejected).
C2_VersionMonotone ==
    [][\A c \in CallIds :
          AckHandler(c) =>
             /\ \A g \in Fields : machine'[VersionKey(g)] >= machine[VersionKey(g)]
             /\ LET answer == Head(toClient)
                    f == calls[c].field
                IN  answer.result = "version-mismatch" /\ answer.version > machine[VersionKey(f)] =>
                       /\ machine'[VersionKey(f)] = answer.version
                       /\ calls'[c].answer = "version-mismatch"
                       /\ server' = server]_vars

\* A call whose commit was rejected holds the higher version the server reported.
C2_Witness ==
    \E c \in CallIds :
        /\ calls[c].pc = "backoff"
        /\ calls[c].answer = "version-mismatch"
        /\ calls[c].adopted.present
        /\ machine[VersionKey(calls[c].field)] = calls[c].adopted.version
        /\ machine[VersionKey(calls[c].field)] > InitMachine[VersionKey(calls[c].field)]

\* C3 as stated: after a version-mismatch with a higher version and value X was
\* adopted, the next attempt sends transform(X) with the adopted version as
\* expectedVersion.
C3_NextAttemptFromAdopted ==
    [][\A c \in CallIds :
          BackoffRetry(c) /\ calls[c].adopted.present =>
             calls'[c].sent = Sub(JSONstringify(Transform(calls[c].handler,
                                                          JSONparse(calls[c].adopted.value))),
                                  calls[c].adopted.version)]_vars

\* C3 as amended: a version-mismatch with a higher version and value X makes (X, that
\* version) the local baseline; the next attempt sends the transform of the baseline
\* the client holds when it is made, with that baseline's version, which is
\* transform(X) with the adopted version when nothing replaced the baseline meanwhile;
\* and a success answer to that attempt carries the value it sent at the version after
\* the one it expected, which becomes the local pair.
C3_RetryFromBaseline ==
    [][\A c \in CallIds :
          LET f == calls[c].field
              h == calls[c].handler
              answer == Head(toClient)
          IN  /\ AckHandler(c) /\ answer.result = "version-mismatch"
                     /\ answer.version > machine[VersionKey(f)] =>
                    /\ machine'[f] = Decode(answer.value)
                    /\ machine'[VersionKey(f)] = answer.version
              /\ BackoffRetry(c) /\ ThisSocket # 0 =>
                    /\ calls'[c].sent = Sub(JSONstringify(Transform(h, machine[f])),
                                            machine[VersionKey(f)])
                    /\ toServer' = Append(toServer,
                                          [event |-> EventOf(f), call |-> c,
                                           value |-> calls'[c].sent.value,
                                           expectedVersion |-> calls'[c].sent.version])
                    /\ calls[c].adopted.present /\ Local(f) = calls[c].adopted =>
                          /\ calls'[c].rebased
                          /\ calls'[c].sent =
                               Sub(JSONstringify(Transform(h, JSONparse(calls[c].adopted.value))),
                                   calls[c].adopted.version)
              /\ AckHandler(c) /\ answer.result = "success" /\ calls[c].rebased =>
                    /\ answer.value = calls[c].sent.value
                    /\ answer.version = calls[c].sent.version + 1
                    /\ machine'[f] = JSONparse(calls[c].sent.value)
                    /\ machine'[VersionKey(f)] = answer.version]_vars

\* The server accepted an attempt made from the baseline adopted from a
\* version-mismatch, and its answer is about to resume the call.
C3_Witness ==
    /\ toClient # <<>>
    /\ Head(toClient).kind = "ack"
    /\ Head(toClient).result = "success"
    /\ calls[Head(toClient).call].rebased
    /\ "custom" \in JSONparse(Head(toClient).value).by
    /\ JSONparse(Head(toClient).value).base \in OtherBases

\* C4: an 'error' answer leaves the local value and version unchanged and makes the
\* attempt a retryable failure: the call does not complete, the retry policy will
\* invoke it again.
C4_ErrorIsRetried ==
    [][\A c \in CallIds :
          AckHandler(c) /\ Head(toClient).result = "error" =>
             /\ machine' = machine
             /\ calls'[c].pc = "backoff"]_vars

\* C5: a call that returned got a 'success' answer to one of its attempts (its last).
C5_ReturnedMeansAccepted ==
    \A c \in CallIds : calls[c].pc = "done" => calls[c].answer = "success"

\* C5, the half the code keeps: a 'success' answer makes the answered pair the local
\* pair and ends the call.
C5_SuccessAdopted ==
    [][\A c \in CallIds :
          AckHandler(c) /\ Head(toClient).result = "success" =>
             /\ machine'[calls[c].field] = Decode(Head(toClient).value)
             /\ machine'[VersionKey(calls[c].field)] = Head(toClient).version
             /\ calls'[c].pc = "done"]_vars

\* C6: an 'update' event of another type, or about another machine, leaves metadata,
\* metadataVersion, daemonState and daemonStateVersion as they were, whatever
\* sub-updates it carries.
C6_ForeignUpdateIgnored ==
    [][UpdateHandler /\ (Head(toClient).t # "update-machine"
                            \/ Head(toClient).machineId # MachineId)
          => machine' = machine]_vars

\* An envelope that carried both sub-updates was ignored.
C6_Witness ==
    /\ last = [ev |-> "update", branch |-> "ignored", carried |-> "both", steps |-> <<>>]
    /\ machine[VersionKey("metadata")] # StraySub.version

\* C7: at most one keep-alive interval is ever active, it is the one
\* this.keepAliveInterval holds; exactly one is active after a 'connect' event, however
\* many came before, and none after a 'disconnect' event or shutdown().
C7_OneHeartbeat ==
    /\ Cardinality(DOMAIN intervals) <= 1
    /\ DOMAIN intervals = IF keepAliveInterval = 0 THEN {} ELSE {keepAliveInterval}
    /\ last.ev = "connect" => Cardinality(DOMAIN intervals) = 1
    /\ last.ev \in {"disconnect", "shutdown"} => DOMAIN intervals = {}

\* Two 'connect' events in a row, the first one's interval still running at the second.
C7_Witness ==
    /\ last.ev = "connect"
    /\ handled.connect >= 2
    /\ \A s \in 1 .. Len(sockets) : sockets[s] = "connected"
    /\ Len(sockets) >= 2
    /\ Cardinality(DOMAIN intervals) = 1

\* C8: every run of the 'reconnect' handler (and of the 'connect' handler) announces
\* each of the three methods once, repeats included: after N runs each method has been
\* announced N times, 3 * N announcements in all.
C8_ThreePerReconnect ==
    \A a \in RpcActions : registered[a] = handled.connect + handled.reconnect

\* The 'reconnect' handler ran twice.
C8_Witness ==
    /\ handled.reconnect = 2
    /\ \A a \in RpcActions : registered[a] = handled.connect + 2

\* The transport sessions that are not closed.
OpenSockets == {s \in 1 .. Len(sockets) : sockets[s] # "closed"}

\* C11: connect() is idempotent: after any number of connect() calls the client has a
\* single open transport session, so that the 'connect' handler has run once (three
\* registrations, one daemon-state mutation) as long as no session was lost.
C11_ConnectIdempotent ==
    /\ Cardinality(OpenSockets) <= 1
    /\ handled.reconnect = 0 /\ (\A s \in OpenSockets : sockets[s] # "disconnected") =>
          /\ handled.connect <= 1
          /\ \A a \in RpcActions : registered[a] <= 1

\* shutdown() was called and connect() was not called after it.
ShutDown == ThisSocket # 0 /\ sockets[ThisSocket] = "closed"

\* C12: after shutdown() no keep-alive timer is active, every transport session is
\* closed and stays closed, and no 'connect' or 'reconnect' handling takes place; a
\* second shutdown() changes nothing.
C12_ShutdownTerminal ==
    [][ShutDown =>
          /\ DOMAIN intervals = {} /\ DOMAIN intervals' = {}
          /\ OpenSockets = {} /\ OpenSockets' = {}
          /\ handled' = handled
          /\ shutdown => <<keepAliveInterval, intervals, sockets>>' =
                             <<keepAliveInterval, intervals, sockets>>]_vars

\* C13: whatever the order in which commit answers and 'update' events about this
\* machine arrive, no step lowers the local metadataVersion or daemonStateVersion.
C13_VersionsNeverDecrease ==
    [][\A f \in Fields : machine'[VersionKey(f)] >= machine[VersionKey(f)]]_vars

\* An 'update' event about this machine was applied after a commit of the client was
\* accepted, and the local version has grown.
C13_Witness ==
    /\ last.ev = "update" /\ last.branch = "applied" /\ last.carried # "none"
    /\ \E c \in CallIds :
          /\ calls[c].pc = "done" /\ calls[c].answer = "success"
          /\ machine[VersionKey(calls[c].field)] > InitMachine[VersionKey(calls[c].field)] + 1

\* The positions in a handler's steps at which it does something of kind e.
StepsOf(e) == {i \in 1 .. Len(last.steps) : last.steps[i].emit = e}

\* C14 as stated: the 'connect' handler first issues the daemon-state mutation, then
\* starts the keep-alive timer, and only then emits the three registrations.
C14_KeepAliveBeforeRegister ==
    last.ev = "connect" =>
        /\ StepsOf("updateDaemonState") = {1}
        /\ \A k \in StepsOf("startKeepAlive"), r \in StepsOf("rpc-register") : 1 < k /\ k < r

\* C14 as amended: every run of the 'connect' handler issues the daemon-state mutation
\* first, then emits the three registrations (spawn-happy-session, stop-session,
\* stop-daemon), and starts the keep-alive timer last, all in the one handler run.
C14_RegisterBeforeKeepAlive ==
    [][\A s \in 1 .. MaxSockets :
          OnConnect(s) =>
             /\ last'.ev = "connect"
             /\ Len(last'.steps) = 5
             /\ last'.steps[1].emit = "updateDaemonState"
             /\ <<last'.steps[2], last'.steps[3], last'.steps[4]>> =
                   <<[emit |-> "rpc-register", method |-> spawnMethod],
                     [emit |-> "rpc-register", method |-> stopMethod],
                     [emit |-> "rpc-register", method |-> stopDaemonMethod]>>
             /\ last'.steps[5].emit = "startKeepAlive"
             /\ \E c \in CallIds :
                   /\ calls[c].pc = "idle" /\ calls'[c].pc = "awaitAck"
                   /\ calls'[c].field = "daemonState" /\ calls'[c].handler = "running"
             /\ \A a \in RpcActions : registered'[a] = registered[a] + 1
             /\ keepAliveInterval' \in DOMAIN intervals'
             /\ intervals'[keepAliveInterval'] = now + KeepAliveInterval]_vars

\* A 'connect' handler has run: the mutation is in flight, the methods are registered
\* and the timer runs.
C14_Witness ==
    /\ last.ev = "connect" /\ Len(last.steps) = 5
    /\ \E c \in CallIds : calls[c].pc = "awaitAck" /\ calls[c].handler = "running"
    /\ \A a \in RpcActions : registered[a] >= 1
    /\ keepAliveInterval \in DOMAIN intervals

\* C15: an 'update' event about this machine overwrites each field on its own: a
\* metadata sub-update sets metadata and metadataVersion to the pushed pair, a
\* daemonState sub-update sets daemonState and daemonStateVersion to the pushed pair,
\* and a field without a sub-update keeps its pair.
C15_FieldsOverwrittenIndependently ==
    [][UpdateHandler /\ Head(toClient).t = "update-machine"
                     /\ Head(toClient).machineId = MachineId =>
          \A f \in Fields :
             LET sub == Head(toClient)[f]
             IN  IF sub.present
                 THEN /\ machine'[f] = (IF sub.value.str THEN JSONparse(sub.value)
                                                          ELSE sub.value.obj)
                      /\ machine'[VersionKey(f)] = sub.version
                 ELSE /\ machine'[f] = machine[f]
                      /\ machine'[VersionKey(f)] = machine[VersionKey(f)]]_vars

\* An envelope carrying both sub-updates was applied, and both fields hold what
\* another client wrote.
C15_Witness ==
    /\ last.ev = "update" /\ last.branch = "applied" /\ last.carried = "both"
    /\ \A f \in Fields :
          /\ machine[f].base \in OtherBases
          /\ machine[VersionKey(f)] > InitMachine[VersionKey(f)]

\* C16: the 'disconnect', 'reconnect' and error handlers, a keep-alive tick, the
\* dispatch of an rpc-request (to its end, failing or not, and its stop-daemon timer)
\* and shutdown() leave metadata, metadataVersion, daemonState and daemonStateVersion
\* as they were.
C16_CacheKeptByOtherHandlers ==
    [][(\/ \E s \in 1 .. MaxSockets : OnDisconnect(s) \/ OnReconnect(s) \/ OnError(s)
        \/ \E h \in DOMAIN intervals : KeepAliveTick(h)
        \/ \E r \in RequestIds : requests'[r] # requests[r]
        \/ shutdown)
          => machine' = machine]_vars

\* The session was lost and reopened, a heartbeat was sent, a request failed and the
\* client was shut down; the cache is what it was.
C16_Witness ==
    /\ last.ev = "shutdown"
    /\ handled.reconnect >= 1
    /\ aliveSent >= 1
    /\ \E r \in RequestIds : requests[r].pc = "done" /\ requests[r].responses # <<>>
                                /\ ~requests[r].responses[1].ok
    /\ machine = InitMachine

\* The requests that wait for their spawn handler to complete.
AwaitingSpawn == {r \in RequestIds : requests[r].pc = "awaitSpawn"}

\* C17: while a spawn request waits for its spawn handler, a keep-alive tick that is
\* due is emitted and a request that arrives is dispatched and answered at once, the
\* waiting request staying as it is; every response goes to its own request.
C17_SpawnDoesNotBlock ==
    /\ [](AwaitingSpawn # {} =>
            /\ \A h \in DOMAIN intervals :
                  now >= intervals[h] /\ aliveSent < MaxAlive => ENABLED KeepAliveTick(h)
            /\ Open /\ (\E r \in RequestIds : requests[r].pc = "none") =>
                  /\ ENABLED OnRpcRequest(stopMethod, "json-full", "true")
                  /\ ENABLED OnRpcRequest(stopDaemonMethod, "json-full", "true"))
    /\ [][\A w \in AwaitingSpawn :
             /\ (\E m \in InboundMethods : OnRpcRequest(m, "json-full", "true")) =>
                   /\ requests'[w] = requests[w]
                   /\ requests'[NewRequest].pc # "none"
                   /\ requests'[NewRequest].method # spawnMethod =>
                         Len(requests'[NewRequest].responses) = 1
                   /\ \A r \in RequestIds \ {NewRequest} : requests'[r] = requests[r]
             /\ (\E h \in DOMAIN intervals : KeepAliveTick(h)) =>
                   aliveSent' = aliveSent + 1 /\ requests' = requests
             /\ (\E x \in SpawnResults : SpawnSettles(w, x)) =>
                   /\ Len(requests'[w].responses) = 1
                   /\ \A r \in RequestIds \ {w} : requests'[r] = requests[r]]_vars

\* A stop-session request that arrived after a spawn request was answered while the
\* spawn request still waits, and a keep-alive tick is due.
C17_Witness ==
    /\ requests[1].pc = "awaitSpawn" /\ requests[1].responses = <<>>
    /\ requests[2].pc = "done" /\ requests[2].method = stopMethod
    /\ requests[2].responses = <<Response(TRUE, "Session stopped")>>
    /\ \E h \in DOMAIN intervals : now >= intervals[h]

\* C18: a call whose attempt reached the server completes with a 'success' answer,
\* however many of its attempts were answered version-mismatch on the way; the call
\* never ends in a failure.
C18_ConflictsRecovered ==
    \A c \in CallIds :
        (calls[c].pc = "awaitAck") ~> (calls[c].pc = "done" /\ calls[c].answer = "success")

\* A call completed with a value built on what another client had committed: its
\* first attempt was rejected, it adopted the server's pair and retried.
C18_Witness ==
    \E c \in CallIds :
        /\ calls[c].pc = "done" /\ calls[c].answer = "success"
        /\ retries >= 1
        /\ machine[calls[c].field].base \in OtherBases
        /\ "custom" \in machine[calls[c].field].by
        /\ Local(calls[c].field) = [present |-> TRUE, value |-> server[calls[c].field].value,
                                    version |-> server[calls[c].field].version]

\* The calls that completed with a 'success' answer.
Committed == {c \in CallIds : calls[c].pc = "done" /\ calls[c].answer = "success"}

\* The 'success' answers on their way to the client.
SuccessAcks == {i \in 1 .. Len(toClient) : toClient[i].kind = "ack" /\ toClient[i].result = "success"}

\* No call is in progress and nothing is in flight.
Quiet ==
    /\ \A c \in CallIds : calls[c].pc \in {"idle", "done"}
    /\ toServer = <<>> /\ toClient = <<>>

\* C19: concurrent calls on the daemon state lose no update: every call whose attempt
\* reached the server completes with a 'success' answer, each accepted commit is a
\* version of its own, the server's value carries the transform of every completed
\* call, and once all calls have completed the local pair is the server's pair.
C19_NoLostUpdate ==
    /\ [](/\ server.daemonState.version = InitMachine.daemonStateVersion
                                            + Cardinality(Committed) + Cardinality(SuccessAcks)
          /\ \A c \in Committed : calls[c].handler \in JSONparse(server.daemonState.value).by
          /\ Quiet => /\ machine.daemonStateVersion = server.daemonState.version
                      /\ machine.daemonState = JSONparse(server.daemonState.value))
    /\ \A c \in CallIds :
          (calls[c].pc = "awaitAck") ~> (calls[c].pc = "done" /\ calls[c].answer = "success")

\* The daemon's call and the 'connect' handler's call ran concurrently (the retry of
\* one followed the rejection of its first attempt), both completed, and the server's
\* value carries both transforms.
C19_Witness ==
    /\ Quiet
    /\ \E c, d \in Committed : calls[c].handler = "running" /\ calls[d].handler = "custom"
    /\ retries >= 1
    /\ JSONparse(server.daemonState.value).by = {"running", "custom"}
    /\ machine.daemonStateVersion = InitMachine.daemonStateVersion + Cardinality(Committed)

\* C20: the local cache is never ahead of the server: the local metadataVersion and
\* daemonStateVersion are at most the server's current version of the field.
C20_NeverAheadOfServer ==
    \A f \in Fields : machine[VersionKey(f)] <= server[f].version

\* The client took over a newer version from an answer or a push, and the server has
\* moved on since.
C20_Witness ==
    \E f \in Fields :
        /\ machine[VersionKey(f)] > InitMachine[VersionKey(f)]
        /\ machine[VersionKey(f)] < server[f].version

\* The calls started by 'connect' handler runs.
RunningCalls == {c \in CallIds : calls[c].pc # "idle" /\ calls[c].handler = "running"}

\* C21: registration and the keep-alive do not wait for the daemon-state commit: every
\* run of the 'connect' handler emits the three registrations and starts the timer in
\* the same step in which it issues the commit, which is then still pending, whatever
\* became of the commits of earlier runs (pending, rejected, never accepted).
C21_ConnectNotGatedByCommit ==
    /\ [](\A a \in RpcActions : registered[a] = handled.connect)
    /\ [][\A s \in 1 .. MaxSockets :
             OnConnect(s) =>
                /\ \A a \in RpcActions : registered'[a] = registered[a] + 1
                /\ keepAliveInterval' # 0
                /\ DOMAIN intervals' = {keepAliveInterval'}
                /\ Committed' = Committed
                /\ \E c \in RunningCalls' \ RunningCalls :
                      calls'[c].pc = "awaitAck" /\ calls'[c].answer = "none"]_vars

\* A second 'connect' handler ran when the daemon's own commit had been accepted and
\* the commit of the first run was lost to it (not yet answered, or rejected); that
\* commit is now rejected and waits for its retry, no commit of a 'connect' handler
\* was accepted, and yet the methods were registered twice and the timer runs.
C21_Witness ==
    /\ last.ev = "connect" /\ handled.connect = 2
    /\ \E c \in RunningCalls : calls[c].pc = "backoff" /\ calls[c].answer = "version-mismatch"
    /\ \E c \in RunningCalls : /\ calls[c].pc = "awaitAck"
                                /\ calls[c].sent.version > InitMachine.daemonStateVersion
    /\ RunningCalls \cap Committed = {}
    /\ \A a \in RpcActions : registered[a] = 2
    /\ keepAliveInterval \in DOMAIN intervals

====
